---- MODULE Spec2Model ----
(***************************************************************************)
(* Model of src/main.py: the dynamic form creator.                         *)
(*                                                                         *)
(* State: the two module-level dictionaries generated_forms and            *)
(* form_responses, the submit_form coroutines suspended at their await,    *)
(* and the response sent for the last completed request.                   *)
(*                                                                         *)
(* Python values are represented as follows.  A str is a TLA+ string;      *)
(* where the code looks inside a string (float(), min(), max()) the        *)
(* characters come from Codes.  Optional[...] values are records with a    *)
(* "present" flag.  A call that may raise returns [exc, val]; exc = NoExc  *)
(* means it returned val.                                                  *)
(***************************************************************************)
EXTENDS Integers, Sequences, FiniteSets, TLC

VARIABLES generated_forms, form_responses, tasks, result

vars == <<generated_forms, form_responses, tasks, result>>

----------------------------------------------------------------------------
(* Bounds of the exploration *)

MaxForms == 2

MaxSubmissions == 2

----------------------------------------------------------------------------
(* String pools and the characters of the strings *)

NoneStr == "<None>"

NoExc == "<no exception>"

Names == <<"q1", "q2">>

FieldLabels == <<"Question 1", "Question 2">>

Prompts == {"", "a survey please"}

Codes(s) ==
    CASE s = "" -> <<>>
      [] s = "10" -> <<49, 48>>
      [] s = "20" -> <<50, 48>>
      [] s = "A" -> <<65>>
      [] s = "B" -> <<66>>
      [] s = "C" -> <<67>>
      [] s = "2024-01-01" -> <<50, 48, 50, 52, 45, 48, 49, 45, 48, 49>>
      [] s = "N/A" -> <<78, 47, 65>>

(* str.__lt__: lexicographic comparison by code point *)
StrLess(a, b) ==
    LET x == Codes(a)
        y == Codes(b)
        lt[i \in 1..(Len(x) + 1)] ==
            IF i > Len(y) THEN FALSE
            ELSE IF i > Len(x) THEN TRUE
            ELSE IF x[i] # y[i] THEN x[i] < y[i]
            ELSE lt[i + 1]
    IN lt[1]

(* float(r) on the literals of the pool: a run of decimal digits converts *)
(* to its value, every other string of the pool raises ValueError.        *)
IsFloatLiteral(s) ==
    LET x == Codes(s)
    IN Len(x) > 0 /\ \A i \in 1..Len(x) : x[i] \in 48..57

FloatOf(s) ==
    LET x == Codes(s)
        val[i \in 0..Len(x)] ==
            IF i = 0 THEN 0 ELSE 10 * val[i - 1] + (x[i] - 48)
    IN val[Len(x)]

(* a float quotient n / d, d > 0, kept exact as a reduced fraction *)
TrueDiv(n, d) ==
    LET g == CHOOSE k \in 1..d :
                 /\ n % k = 0 /\ d % k = 0
                 /\ \A m \in (k + 1)..d : ~(n % m = 0 /\ d % m = 0)
    IN [num |-> n \div g, den |-> d \div g]

IntZero == [num |-> 0, den |-> 1]

----------------------------------------------------------------------------
(* Schema model: TypeEnum, Options, FormField, DynamicForm, FormResponse *)

TypeEnum == {"text", "number", "date", "radio", "checkbox", "select", "textarea"}

Options(label, value) == [label |-> label, value |-> value]

NoOptions == [present |-> FALSE, items |-> <<>>]

SomeOptions(items) == [present |-> TRUE, items |-> items]

OptionsAB == SomeOptions(<<Options("Option A", "A"), Options("Option B", "B")>>)

OptionsPool == {NoOptions, OptionsAB}

FormField(i, type, options) ==
    [label |-> FieldLabels[i],
     type |-> type,
     name |-> Names[i],
     required |-> TRUE,
     placeholder |-> IF type \in {"text", "textarea"} THEN "type here" ELSE NoneStr,
     options |-> options]

DynamicForm(fields) == [present |-> TRUE, title |-> "Survey", fields |-> fields]

NoneForm == [present |-> FALSE, title |-> NoneStr, fields |-> <<>>]

FormResponse(response_id, form_id, data, timestamp) ==
    [response_id |-> response_id, form_id |-> form_id,
     data |-> data, timestamp |-> timestamp]

FieldPool == { FormField(1, c[1], c[2]) : c \in TypeEnum \X OptionsPool }

(* Outputs of the structured completion: message.parsed is a DynamicForm of *)
(* the response_format (no fields, one field of any type with or without    *)
(* options, or such a field followed by a text field), or None on refusal.  *)
FormPool ==
    {DynamicForm(<<>>)}
    \cup { DynamicForm(<<f>>) : f \in FieldPool }
    \cup { DynamicForm(<<f, FormField(2, "text", NoOptions)>>) : f \in FieldPool }

SamplePool ==
    { DynamicForm(<<FormField(1, "text", NoOptions)>>),
      DynamicForm(<<FormField(1, "select", NoOptions)>>) }

(* values a client posts for a control of the given type *)
ValuesFor(type) ==
    CASE type \in {"text", "textarea"} -> {"", "A"}
      [] type = "number" -> {"", "10", "20", "A"}
      [] type = "date" -> {"", "2024-01-01"}
      [] type \in {"radio", "checkbox", "select"} -> {"A", "C"}

(* dict(form_data): a mapping from some of the form's field names to str *)
DataPool(form) ==
    LET names == { form.fields[i].name : i \in DOMAIN form.fields }
        typeOf(n) == (CHOOSE i \in DOMAIN form.fields : form.fields[i].name = n)
        vals(n) == ValuesFor(form.fields[typeOf(n)].type)
    IN UNION { { d \in [keys -> UNION { vals(n) : n \in keys }] :
                   \A n \in keys : d[n] \in vals(n) } : keys \in SUBSET names }

----------------------------------------------------------------------------
(* Calls that may raise *)

Returned(val) == [exc |-> NoExc, val |-> val]

Raised(exc) == [exc |-> exc, val |-> [tag |-> "None"]]

(* the exception that ends a left-to-right evaluation of the calls in seq *)
FirstRaised(seq) ==
    LET bad == { i \in DOMAIN seq : seq[i].exc # NoExc }
    IN IF bad = {} THEN NoExc
       ELSE seq[CHOOSE i \in bad : \A j \in bad : i <= j].exc

ValuesOf(seq) == [i \in DOMAIN seq |-> seq[i].val]

----------------------------------------------------------------------------
(* Form renderer: create_dynamic_form *)

Label(text, for) == [tag |-> "label", text |-> text, for |-> for]

Input(type, name, value, id, placeholder, required) ==
    [tag |-> "input", type |-> type, name |-> name, value |-> value, id |-> id,
     placeholder |-> placeholder, required |-> required]

Div(children) == [tag |-> "div", children |-> children]

CheckboxControl(field, opt) ==
    Div(<<Input("checkbox", field.name, opt.value,
                field.name \o "_" \o opt.value, NoneStr, FALSE),
          Label(opt.label, field.name \o "_" \o opt.value)>>)

RadioControl(field, opt) ==
    Div(<<Input("radio", field.name, opt.value,
                field.name \o "_" \o opt.value, NoneStr, field.required),
          Label(opt.label, field.name \o "_" \o opt.label)>>)

SelectOption(opt) == [tag |-> "option", value |-> opt.value, label |-> opt.label]

(* one iteration of the loop over form_data.fields *)
RenderField(field) ==
    CASE field.type \in {"text", "number", "date"} ->
           Returned(Div(<<Label(field.label, field.name),
                          Input(field.type, field.name, NoneStr, NoneStr,
                                field.placeholder, field.required)>>))
      [] field.type = "select" ->
           IF ~field.options.present THEN Raised("TypeError")
           ELSE Returned(Div(<<Label(field.label, field.label),
                               [tag |-> "select", name |-> field.name,
                                required |-> field.required,
                                options |-> [k \in DOMAIN field.options.items |->
                                               SelectOption(field.options.items[k])]]>>))
      [] field.type = "checkbox" ->
           IF ~field.options.present THEN Raised("TypeError")
           ELSE Returned(Div(<<Label(field.label, NoneStr),
                               Div([k \in DOMAIN field.options.items |->
                                      CheckboxControl(field, field.options.items[k])])>>))
      [] field.type = "radio" ->
           IF ~field.options.present THEN Raised("TypeError")
           ELSE Returned(Div(<<Label(field.label, NoneStr),
                               Div([k \in DOMAIN field.options.items |->
                                      RadioControl(field, field.options.items[k])])>>))
      [] field.type = "textarea" ->
           Returned(Div(<<Label(field.label, field.name),
                          [tag |-> "textarea", name |-> field.name,
                           placeholder |-> field.placeholder,
                           required |-> field.required]>>))

create_dynamic_form(form_data, form_id, is_preview) ==
    IF ~form_data.present THEN Returned([tag |-> "None"])
    ELSE LET rendered == [i \in DOMAIN form_data.fields |-> RenderField(form_data.fields[i])]
             fields == ValuesOf(rendered)
             form == IF is_preview
                     THEN [tag |-> "div", class |-> "preview-form", children |-> fields]
                     ELSE [tag |-> "form",
                           children |-> Append(fields, [tag |-> "button", type |-> "submit"]),
                           method |-> "post", action |-> <<"/submit/", form_id>>]
         IN IF FirstRaised(rendered) # NoExc THEN Raised(FirstRaised(rendered))
            ELSE Returned([tag |-> "container", title |-> form_data.title, form |-> form])

----------------------------------------------------------------------------
(* Analytics aggregator: the loop body of show_analytics *)

(* faulty variant: the extracted values with the empty ones dropped *)
FieldResponsesNonEmpty(field, responses) ==
    SelectSeq([k \in DOMAIN responses |->
                  IF field.name \in DOMAIN responses[k].data
                  THEN responses[k].data[field.name] ELSE ""],
              LAMBDA v : v # "")

(* [response.data.get(field.name, "") for response in responses] *)
FieldResponses(field, responses) ==
    [k \in DOMAIN responses |->
        IF field.name \in DOMAIN responses[k].data
        THEN responses[k].data[field.name] ELSE ""]

(* faulty variant: a value float() rejects is skipped instead of raising *)
AverageSkipInvalid(field_responses) ==
    LET n == Len(field_responses)
        sum[i \in 0..n] ==
            IF i = 0 THEN 0
            ELSE IF ~IsFloatLiteral(field_responses[i]) THEN sum[i - 1]
            ELSE sum[i - 1] + FloatOf(field_responses[i])
    IN IF n = 0 THEN Returned(IntZero) ELSE Returned(TrueDiv(sum[n], n))

(* sum(float(r) for r in field_responses if r) / len(field_responses)
   if field_responses else 0 *)
Average(field_responses) ==
    LET n == Len(field_responses)
        sum[i \in 0..n] ==
            IF i = 0 THEN 0
            ELSE IF field_responses[i] = "" THEN sum[i - 1]
            ELSE sum[i - 1] + FloatOf(field_responses[i])
    IN IF n = 0 THEN Returned(IntZero)
       ELSE IF \E i \in 1..n : field_responses[i] # "" /\ ~IsFloatLiteral(field_responses[i])
       THEN Raised("ValueError")
       ELSE Returned(TrueDiv(sum[n], n))

(* min(field_responses, default='N/A') *)
MinOf(field_responses) ==
    IF Len(field_responses) = 0 THEN "N/A"
    ELSE LET i == CHOOSE i \in DOMAIN field_responses :
                      \A j \in DOMAIN field_responses :
                          ~StrLess(field_responses[j], field_responses[i])
         IN field_responses[i]

(* max(field_responses, default='N/A') *)
MaxOf(field_responses) ==
    IF Len(field_responses) = 0 THEN "N/A"
    ELSE LET i == CHOOSE i \in DOMAIN field_responses :
                      \A j \in DOMAIN field_responses :
                          ~StrLess(field_responses[i], field_responses[j])
         IN field_responses[i]

(* field_responses.count(value) *)
Count(field_responses, value) ==
    Cardinality({ k \in DOMAIN field_responses : field_responses[k] = value })

(* {option.value: field_responses.count(option.value) for option in options}
   as the items() of the dict: one item per distinct key, in first-insertion order *)
OptionCounts(options, field_responses) ==
    LET first == { i \in DOMAIN options :
                     \A j \in 1..(i - 1) : options[j].value # options[i].value }
        rank(i) == Cardinality({ j \in first : j <= i })
    IN [k \in 1..Cardinality(first) |->
          LET i == CHOOSE i \in first : rank(i) = k
          IN [option |-> options[i].value,
              count |-> Count(field_responses, options[i].value)]]

FieldAnalytics(field, responses) ==
    LET field_responses == FieldResponses(field, responses)
    IN CASE field.type \in {"text", "textarea"} ->
              Returned([kind |-> "responses", label |-> field.label,
                        items |-> field_responses])
         [] field.type \in {"number", "date"} ->
              IF Average(field_responses).exc # NoExc
              THEN Raised(Average(field_responses).exc)
              ELSE Returned([kind |-> "statistics", label |-> field.label,
                             average |-> Average(field_responses).val,
                             min |-> MinOf(field_responses),
                             max |-> MaxOf(field_responses)])
         [] field.type \in {"radio", "select", "checkbox"} ->
              IF ~field.options.present THEN Raised("TypeError")
              ELSE Returned([kind |-> "distribution", label |-> field.label,
                             counts |-> OptionCounts(field.options.items, field_responses)])

----------------------------------------------------------------------------
(* Request handlers.  Form ids and response ids stand for uuid4() strings:  *)
(* the n-th id issued is n, and 0 is an id that is never issued.            *)

Response(op, form_id, status, exc, body) ==
    [op |-> op, form_id |-> form_id, status |-> status, exc |-> exc, body |-> body]

NotFound(op, form_id) ==
    Response(op, form_id, "not_found", NoExc, [kind |-> "Form not found"])

ServerError(op, form_id, exc) ==
    Response(op, form_id, "error", exc, [kind |-> "Internal Server Error"])

NoResponse == Response("none", 0, "none", NoExc, [kind |-> "none"])

RequestIds == {0} \cup DOMAIN generated_forms

Awaiting == { t \in DOMAIN tasks : tasks[t].pc = "awaiting" }

Done == { t \in DOMAIN tasks : tasks[t].pc = "done" }

(* get_form_response: the completion call raises, or returns a message whose *)
(* parsed attribute is a DynamicForm or None                                 *)
APIError == [raised |-> TRUE, parsed |-> NoneForm]

Message(parsed) == [raised |-> FALSE, parsed |-> parsed]

(* the page generate_form returns once the form is stored *)
GeneratedPage(parsed, form_id) ==
    LET preview_form == create_dynamic_form(parsed, form_id, TRUE)
    IN IF preview_form.exc # NoExc THEN ServerError("generate", form_id, preview_form.exc)
       ELSE Response("generate", form_id, "ok", NoExc,
                     [kind |-> "Form Generated Successfully",
                      preview |-> preview_form.val,
                      share_link |-> <<"/share/", form_id>>])

(* GET / *)
home ==
    /\ result' =
         IF \E id \in DOMAIN generated_forms : ~generated_forms[id].present
         THEN ServerError("home", 0, "AttributeError")
         ELSE Response("home", 0, "ok", NoExc,
                       [kind |-> "Dynamic Form Creator",
                        form_list |-> [id \in DOMAIN generated_forms |->
                                         <<generated_forms[id].title, id>>]])
    /\ UNCHANGED <<generated_forms, form_responses, tasks>>

(* GET /create-form *)
create_form ==
    /\ result' = Response("create_form", 0, "ok", NoExc, [kind |-> "Create a New Form"])
    /\ UNCHANGED <<generated_forms, form_responses, tasks>>

(* POST /generate-form *)
generate_form(prompt, completion) ==
    IF prompt = ""
    THEN /\ result' = Response("generate", 0, "ok", NoExc,
                               [kind |-> "Error generating form. Please try again."])
         /\ UNCHANGED <<generated_forms, form_responses, tasks>>
    ELSE IF completion.raised
    THEN /\ result' = ServerError("generate", 0, "APIError")
         /\ UNCHANGED <<generated_forms, form_responses, tasks>>
    ELSE LET form_id == Cardinality(DOMAIN generated_forms) + 1
         IN /\ form_id <= MaxForms
            /\ generated_forms' = generated_forms @@ (form_id :> completion.parsed)
            /\ form_responses' = form_responses @@ (form_id :> <<>>)
            /\ result' = GeneratedPage(completion.parsed, form_id)
            /\ UNCHANGED tasks

(* GET /share/{form_id} *)
share_form(form_id) ==
    /\ result' =
         IF form_id \in DOMAIN generated_forms
         THEN LET page == create_dynamic_form(generated_forms[form_id], form_id, FALSE)
              IN IF page.exc # NoExc THEN ServerError("share", form_id, page.exc)
                 ELSE Response("share", form_id, "ok", NoExc, page.val)
         ELSE NotFound("share", form_id)
    /\ UNCHANGED <<generated_forms, form_responses, tasks>>

(* faulty variant: the handler without its membership check *)
submit_form_start_unchecked(form_id, data) ==
    /\ Len(tasks) < MaxSubmissions
    /\ tasks' = Append(tasks, [form_id |-> form_id, data |-> data,
                               pc |-> "awaiting", response_id |-> 0])
    /\ UNCHANGED <<generated_forms, form_responses, result>>

(* POST /submit/{form_id}, up to the await of the request body *)
submit_form_start(form_id, data) ==
    IF form_id \notin DOMAIN generated_forms
    THEN /\ result' = NotFound("submit", form_id)
         /\ UNCHANGED <<generated_forms, form_responses, tasks>>
    ELSE /\ Len(tasks) < MaxSubmissions
         /\ tasks' = Append(tasks, [form_id |-> form_id, data |-> data,
                                    pc |-> "awaiting", response_id |-> 0])
         /\ UNCHANGED <<generated_forms, form_responses, result>>

(* faulty variant: the response is inserted at the head of the list *)
PrependResponse(responses, response) == <<response>> \o responses

(* faulty variant: the list is rebuilt from the new response alone *)
OverwriteResponses(responses, response) == <<response>>

(* form_responses[form_id].append(response) *)
AppendResponse(responses, response) == Append(responses, response)

(* POST /submit/{form_id}, from the resumption after the await to the return *)
submit_form_finish(t) ==
    /\ t \in Awaiting
    /\ LET form_id == tasks[t].form_id
           response_id == Cardinality(Done) + 1
           response == FormResponse(response_id, form_id, tasks[t].data, response_id)
       IN /\ form_responses' =
                [form_responses EXCEPT ![form_id] = AppendResponse(@, response)]
          /\ tasks' = [tasks EXCEPT ![t].pc = "done", ![t].response_id = response_id]
          /\ result' = Response("submit", form_id, "ok", NoExc,
                                [kind |-> "Form Submitted Successfully",
                                 items |-> tasks[t].data])
    /\ UNCHANGED generated_forms

(* GET /analytics/{form_id} *)
show_analytics(form_id) ==
    /\ result' =
         IF form_id \notin DOMAIN generated_forms THEN NotFound("analytics", form_id)
         ELSE LET form == generated_forms[form_id]
                  responses == IF form_id \in DOMAIN form_responses
                               THEN form_responses[form_id] ELSE <<>>
                  analytics == [i \in DOMAIN form.fields |->
                                  FieldAnalytics(form.fields[i], responses)]
              IN IF ~form.present THEN ServerError("analytics", form_id, "AttributeError")
                 ELSE IF FirstRaised(analytics) # NoExc
                 THEN ServerError("analytics", form_id, FirstRaised(analytics))
                 ELSE Response("analytics", form_id, "ok", NoExc,
                               [kind |-> "Analytics", title |-> form.title,
                                total |-> Len(responses),
                                analytics |-> ValuesOf(analytics)])
    /\ UNCHANGED <<generated_forms, form_responses, tasks>>

----------------------------------------------------------------------------
(* Specifications *)

(* the server writes the page a handler returned to its client; the event   *)
(* loop runs the next handler step once that is done                        *)
send_response ==
    /\ result # NoResponse
    /\ result' = NoResponse
    /\ UNCHANGED <<generated_forms, form_responses, tasks>>

Idle == result = NoResponse

Completions(pool) == {APIError, Message(NoneForm)} \cup { Message(f) : f \in pool }

(* the application from start-up, the generator answering from SamplePool *)
Init ==
    /\ generated_forms = <<>>
    /\ form_responses = <<>>
    /\ tasks = <<>>
    /\ result = NoResponse

Next ==
    \/ /\ Idle
       /\ \E prompt \in Prompts, completion \in Completions(SamplePool) :
             generate_form(prompt, completion)
    \/ Idle /\ home
    \/ Idle /\ create_form
    \/ Idle /\ \E form_id \in RequestIds : share_form(form_id)
    \/ /\ Idle
       /\ \E form_id \in RequestIds :
             \E data \in DataPool(IF form_id = 0 THEN NoneForm
                                  ELSE generated_forms[form_id]) :
                submit_form_start(form_id, data)
    \/ Idle /\ \E t \in DOMAIN tasks : submit_form_finish(t)
    \/ Idle /\ \E form_id \in RequestIds : show_analytics(form_id)
    \/ send_response

Spec == Init /\ [][Next]_vars

(* one form of FormPool just generated, its requests served one at a time *)
InitForm ==
    \E completion \in Completions(FormPool) :
       /\ ~completion.raised
       /\ generated_forms = (1 :> completion.parsed)
       /\ form_responses = (1 :> <<>>)
       /\ tasks = <<>>
       /\ result = GeneratedPage(completion.parsed, 1)

NextForm ==
    \/ Idle /\ \E form_id \in RequestIds : share_form(form_id)
    \/ /\ Idle /\ Awaiting = {}
       /\ \E form_id \in RequestIds :
             \E data \in DataPool(IF form_id = 0 THEN NoneForm
                                  ELSE generated_forms[form_id]) :
                submit_form_start(form_id, data)
    \/ Idle /\ \E t \in DOMAIN tasks : submit_form_finish(t)
    \/ Idle /\ \E form_id \in RequestIds : show_analytics(form_id)
    \/ send_response

FormSpec == InitForm /\ [][NextForm]_vars

----------------------------------------------------------------------------
(* Properties *)

OptionTypes == {"radio", "checkbox", "select"}

StatTypes == {"number", "date"}

TextTypes == {"text", "textarea"}

IsPrefix(a, b) == Len(a) <= Len(b) /\ \A k \in DOMAIN a : b[k] = a[k]

NonEmpty(seq) == SelectSeq(seq, LAMBDA v : v # "")

(* the stored forms that are DynamicForm objects *)
StoredForms == { id \in DOMAIN generated_forms : generated_forms[id].present }

(* the last request asked for the analytics of a stored DynamicForm *)
AnalyticsRequested(id) ==
    id \in StoredForms /\ result.op = "analytics" /\ result.form_id = id

(* the values the completed submissions to form id carry for a field name, *)
(* in the order the submissions completed; "" where the field was omitted  *)
SubmittedValues(id, name) ==
    LET done == { t \in Done : tasks[t].form_id = id }
        rank(t) == Cardinality({ u \in done : tasks[u].response_id <= tasks[t].response_id })
    IN [k \in 1..Cardinality(done) |->
          LET t == CHOOSE t \in done : rank(t) = k
          IN IF name \in DOMAIN tasks[t].data THEN tasks[t].data[name] ELSE ""]

(* C1: a share, submit or analytics request for a form_id that is not a key *)
(* of generated_forms answers "Form not found" and leaves generated_forms,  *)
(* form_responses and the suspended submissions exactly as they were.       *)
C1_UnknownFormNotFound ==
    [][ \A form_id \in RequestIds \ DOMAIN generated_forms :
          ( \/ share_form(form_id)
            \/ \E data \in DataPool(NoneForm) : submit_form_start(form_id, data)
            \/ show_analytics(form_id) )
          => /\ result' \in { NotFound(op, form_id) : op \in {"share", "submit", "analytics"} }
             /\ UNCHANGED <<generated_forms, form_responses, tasks>> ]_vars

(* C1 witness: a submission to an unknown id was refused while a form with a *)
(* stored response exists.                                                   *)
C1_Witness ==
    /\ result = NotFound("submit", 0)
    /\ \E id \in DOMAIN form_responses : Len(form_responses[id]) > 0

(* C2 as claimed: for a number field the reported average, minimum and      *)
(* maximum are those of the non-empty extracted values, so an empty value   *)
(* changes none of them.                                                    *)
C2_EmptyValuesExcluded ==
    \A id \in StoredForms :
       (AnalyticsRequested(id) /\ result.status = "ok") =>
          \A i \in DOMAIN generated_forms[id].fields :
             LET field == generated_forms[id].fields[i]
                 kept == NonEmpty(FieldResponses(field, form_responses[id]))
             IN (field.type = "number" /\ Len(kept) > 0) =>
                   /\ result.body.analytics[i].average = Average(kept).val
                   /\ result.body.analytics[i].min = MinOf(kept)
                   /\ result.body.analytics[i].max = MaxOf(kept)

(* C3 as claimed: for a number or date field whose extracted values are all *)
(* empty or missing (or that has no response at all) the report shows an    *)
(* average of 0 and "N/A" for both minimum and maximum, without an error.   *)
C3_EmptyCaseSentinel ==
    \A id \in StoredForms :
       AnalyticsRequested(id) =>
          \A i \in DOMAIN generated_forms[id].fields :
             LET field == generated_forms[id].fields[i]
                 kept == NonEmpty(FieldResponses(field, form_responses[id]))
                 entry == FieldAnalytics(field, form_responses[id])
             IN (field.type \in StatTypes /\ Len(kept) = 0) =>
                   /\ entry.exc = NoExc
                   /\ entry.val.average.num = 0
                   /\ entry.val.min = "N/A"
                   /\ entry.val.max = "N/A"

(* C4 as claimed: for every radio, select or checkbox field the analytics   *)
(* entry holds one count per declared option, in declared order, equal to   *)
(* the number of responses whose value is that option's value, and no error *)
(* is raised.                                                               *)
C4_OneCountPerOption ==
    \A id \in StoredForms :
       AnalyticsRequested(id) =>
          \A i \in DOMAIN generated_forms[id].fields :
             LET field == generated_forms[id].fields[i]
                 declared == field.options.items
                 values == SubmittedValues(id, field.name)
                 entry == FieldAnalytics(field, form_responses[id])
             IN field.type \in OptionTypes =>
                   /\ entry.exc = NoExc
                   /\ entry.val.counts =
                        [k \in DOMAIN declared |->
                           [option |-> declared[k].value,
                            count |-> Cardinality({ r \in DOMAIN values :
                                                      values[r] = declared[k].value })]]

(* C4 on the fields that declare options: when the field's options are a   *)
(* list of distinct values, the entry holds one count per option as C4      *)
(* says.                                                                    *)
OptionCountsWhenDeclared ==
    \A id \in StoredForms :
       AnalyticsRequested(id) =>
          \A i \in DOMAIN generated_forms[id].fields :
             LET field == generated_forms[id].fields[i]
                 declared == field.options.items
                 values == SubmittedValues(id, field.name)
                 entry == FieldAnalytics(field, form_responses[id])
             IN (field.type \in OptionTypes /\ field.options.present) =>
                   /\ entry.exc = NoExc
                   /\ entry.val.counts =
                        [k \in DOMAIN declared |->
                           [option |-> declared[k].value,
                            count |-> Cardinality({ r \in DOMAIN values :
                                                      values[r] = declared[k].value })]]

(* C5 as claimed: every stored form has options present exactly on its      *)
(* radio, select and checkbox fields.                                       *)
C5_StoredFormsHaveOptionsInvariant ==
    \A id \in StoredForms :
       \A i \in DOMAIN generated_forms[id].fields :
          LET field == generated_forms[id].fields[i]
          IN field.options.present <=> field.type \in OptionTypes

(* C6: the response store is append-only.  Every step keeps each form's     *)
(* list as a prefix of its new list; the step that completes a submission   *)
(* appends exactly one response, carrying the submission's form_id and      *)
(* data, at the end of that form's list and leaves every other list alone.  *)
C6_AppendOnly ==
    [][ /\ \A id \in DOMAIN form_responses :
             /\ id \in DOMAIN form_responses'
             /\ IsPrefix(form_responses[id], form_responses'[id])
        /\ \A t \in Awaiting :
             submit_form_finish(t) =>
                LET id == tasks[t].form_id
                    new == form_responses'[id]
                IN /\ Len(new) = Len(form_responses[id]) + 1
                   /\ new[Len(new)].form_id = id
                   /\ new[Len(new)].data = tasks[t].data
                   /\ \A other \in DOMAIN form_responses \ {id} :
                         form_responses'[other] = form_responses[other] ]_vars

(* C6 witness: a second response was appended to a form's list while        *)
(* another form exists.                                                     *)
C6_Witness ==
    \E id \in DOMAIN form_responses :
       /\ Len(form_responses[id]) = 2
       /\ DOMAIN form_responses # {id}
       /\ result.op = "submit" /\ result.status = "ok"

(* C7: under every interleaving of submissions to a form, the form's list   *)
(* holds exactly one complete response per completed submission, none for a *)
(* submission still suspended, and nothing else.                            *)
C7_AtomicSubmissions ==
    \A id \in DOMAIN form_responses :
       LET list == form_responses[id]
       IN /\ Len(list) = Cardinality({ t \in Done : tasks[t].form_id = id })
          /\ \A t \in Done :
                tasks[t].form_id = id =>
                   Cardinality({ k \in DOMAIN list :
                                   list[k] = FormResponse(tasks[t].response_id, id,
                                                          tasks[t].data,
                                                          tasks[t].response_id) }) = 1
          /\ \A t \in Awaiting, k \in DOMAIN list :
                list[k].response_id # tasks[t].response_id

(* C7 witness: two submissions to one form were in flight together and      *)
(* completed in the opposite order of their arrival.                        *)
C7_Witness ==
    \E t \in Done, u \in Done :
       /\ t < u
       /\ tasks[t].form_id = tasks[u].form_id
       /\ tasks[u].response_id < tasks[t].response_id
       /\ tasks[t].data # tasks[u].data

C9_OneControlPerOption ==
    \A id \in StoredForms :
       (result.op = "share" /\ result.form_id = id) =>
          /\ result.status = "ok"
          /\ \A i \in DOMAIN generated_forms[id].fields :
                LET field == generated_forms[id].fields[i]
                    declared == field.options.items
                    div == result.body.form.children[i]
                IN /\ div.children[1].text = field.label
                   /\ field.type = "select" =>
                         div.children[2].options =
                            [k \in DOMAIN declared |->
                               [tag |-> "option", value |-> declared[k].value,
                                label |-> declared[k].label]]
                   /\ field.type \in {"radio", "checkbox"} =>
                         /\ Len(div.children[2].children) = Len(declared)
                         /\ \A k \in DOMAIN declared :
                               LET control == div.children[2].children[k]
                               IN /\ control.children[1].type = field.type
                                  /\ control.children[1].name = field.name
                                  /\ control.children[1].value = declared[k].value
                                  /\ control.children[2].text = declared[k].label

(* C9 on the forms whose option fields all declare options: one control    *)
(* per option, in order, with the option's value and label text.            *)
ControlsWhenDeclared ==
    \A id \in StoredForms :
       ( /\ result.op = "share" /\ result.form_id = id
         /\ \A j \in DOMAIN generated_forms[id].fields :
               generated_forms[id].fields[j].type \in OptionTypes
                  => generated_forms[id].fields[j].options.present )
       => /\ result.status = "ok"
          /\ \A i \in DOMAIN generated_forms[id].fields :
                LET field == generated_forms[id].fields[i]
                    declared == field.options.items
                    div == result.body.form.children[i]
                IN /\ div.children[1].text = field.label
                   /\ field.type = "select" =>
                         div.children[2].options =
                            [k \in DOMAIN declared |->
                               [tag |-> "option", value |-> declared[k].value,
                                label |-> declared[k].label]]
                   /\ field.type \in {"radio", "checkbox"} =>
                         /\ Len(div.children[2].children) = Len(declared)
                         /\ \A k \in DOMAIN declared :
                               LET control == div.children[2].children[k]
                               IN /\ control.children[1].type = field.type
                                  /\ control.children[1].value = declared[k].value
                                  /\ control.children[2].text = declared[k].label

(* the label of every rendered radio and checkbox control names the control *)
(* it stands beside; the radio branch breaks this (for is built from the    *)
(* option's label, id from its value).                                      *)
ChoiceLabelsPointAtControls ==
    \A id \in StoredForms :
       (result.op = "share" /\ result.form_id = id /\ result.status = "ok") =>
          \A i \in DOMAIN generated_forms[id].fields :
             generated_forms[id].fields[i].type \in {"radio", "checkbox"} =>
                \A k \in DOMAIN result.body.form.children[i].children[2].children :
                   LET control == result.body.form.children[i].children[2].children[k]
                   IN control.children[2].for = control.children[1].id

(* field i of form id holds a non-empty value that float() rejects *)
Unparseable(id, i) ==
    LET field == generated_forms[id].fields[i]
        values == FieldResponses(field, form_responses[id])
    IN /\ field.type \in StatTypes
       /\ \E k \in DOMAIN values : values[k] # "" /\ ~IsFloatLiteral(values[k])

(* C10: when a stored response holds, for a number or date field, a         *)
(* non-empty value that float() rejects, the analytics request ends in an   *)
(* error and no report: the aggregation of that field raises ValueError,    *)
(* which is the error of the request unless a field lacking its options     *)
(* raised first; generated_forms, form_responses and the suspended          *)
(* submissions are unchanged.                                               *)
C10_ConversionFailureIsLocal ==
    [][ \A id \in StoredForms :
          \A i \in DOMAIN generated_forms[id].fields :
             (show_analytics(id) /\ Unparseable(id, i)) =>
                /\ FieldAnalytics(generated_forms[id].fields[i],
                                  form_responses[id]).exc = "ValueError"
                /\ result'.status = "error"
                /\ ( (\A j \in DOMAIN generated_forms[id].fields :
                         generated_forms[id].fields[j].type \in OptionTypes
                            => generated_forms[id].fields[j].options.present)
                     => result'.exc = "ValueError" )
                /\ UNCHANGED <<generated_forms, form_responses, tasks>> ]_vars

(* C10 witness: the analytics of a date field holding "2024-01-01" ended in *)
(* ValueError.                                                              *)
C10_Witness ==
    \E id \in StoredForms :
       /\ result = ServerError("analytics", id, "ValueError")
       /\ Len(generated_forms[id].fields) = 1
       /\ generated_forms[id].fields[1].type = "date"
       /\ Len(form_responses[id]) = 1
       /\ form_responses[id][1].data = [q1 |-> "2024-01-01"]

====
